---- MODULE Spec2Model ----
(***************************************************************************)
(* patisserie: a CLI that uploads a paste to pastery.net (src/main.rs).    *)
(*                                                                         *)
(* Strings are sequences of one-character strings, so that splitting,      *)
(* parsing and formatting are computed rather than assumed.  An            *)
(* Option<T> is a sequence of length 0 (None) or 1 (Some).                 *)
(***************************************************************************)
EXTENDS Integers, Sequences, FiniteSets, TLC

VARIABLES opts, env, pc, dres, lres, api_key, buffer, request, response,
          outcome, stdout, err, steps, reads, sends, env_lookups

vars == <<opts, env, pc, dres, lres, api_key, buffer, request, response,
          outcome, stdout, err, steps, reads, sends, env_lookups>>

None == <<>>
Some(v) == <<v>>
IsSome(o) == Len(o) = 1
Unwrap(o) == o[1]

----------------------------------------------------------------------------
(* Bounds of the model.                                                    *)

\* longest exhaustively enumerated digit run of a duration string
MaxDigits == 3
\* longest exhaustively enumerated remainder (unit part) of a duration string
MaxSuffix == 2

----------------------------------------------------------------------------
(* u32 arithmetic and decimal text.  TLC's integers end at 2^31 - 1, so  *)
(* a u32 (and any natural number a claim speaks of) is held as the         *)
(* sequence of its base-1000 limbs, least significant first, without       *)
(* leading zero limbs: 0 is <<>> and 52,560,000 is <<0, 560, 52>>.         *)

LimbBase == 1000

RECURSIVE W(_)
\* the wide form of a small integer
W(n) == IF n = 0 THEN <<>> ELSE <<n % LimbBase>> \o W(n \div LimbBase)

RECURSIVE WMulAdd(_, _, _)
\* w * m + c, for a factor m > 0 and a carry c that are small integers
WMulAdd(w, m, c) ==
    IF w = <<>> THEN W(c)
    ELSE LET x == w[1] * m + c IN
         <<x % LimbBase>> \o WMulAdd(Tail(w), m, x \div LimbBase)

WMul(w, m) == IF m = 0 THEN <<>> ELSE WMulAdd(w, m, 0)

RECURSIVE WLess(_, _)
WLess(a, b) ==
    IF Len(a) # Len(b) THEN Len(a) < Len(b)
    ELSE IF Len(a) = 0 THEN FALSE
    ELSE IF a[Len(a)] # b[Len(b)] THEN a[Len(a)] < b[Len(b)]
    ELSE WLess(SubSeq(a, 1, Len(a) - 1), SubSeq(b, 1, Len(b) - 1))

WLeq(a, b) == ~WLess(b, a)

RECURSIVE WDivMod(_, _)
\* quotient and remainder of w by a small integer d
WDivMod(w, d) ==
    IF w = <<>> THEN [q |-> <<>>, r |-> 0]
    ELSE LET up == WDivMod(Tail(w), d)
             x == up.r * LimbBase + w[1]
         IN  [q |-> IF up.q = <<>> /\ x \div d = 0 THEN <<>>
                    ELSE <<x \div d>> \o up.q,
              r |-> x % d]

\* 2^32, one more than u32::MAX
U32_LIMIT == WMul(W(65536), 65536)

fits_u32(w) == WLess(w, U32_LIMIT)

U32_MAX == WMulAdd(W(65535), 65536, 65535)

AsciiDigits == {"0", "1", "2", "3", "4", "5", "6", "7", "8", "9"}

is_ascii_digit(c) == c \in AsciiDigits

to_digit(c) ==
    CASE c = "0" -> 0 [] c = "1" -> 1 [] c = "2" -> 2 [] c = "3" -> 3
      [] c = "4" -> 4 [] c = "5" -> 5 [] c = "6" -> 6 [] c = "7" -> 7
      [] c = "8" -> 8 [] c = "9" -> 9

from_digit(d) ==
    CASE d = 0 -> "0" [] d = 1 -> "1" [] d = 2 -> "2" [] d = 3 -> "3"
      [] d = 4 -> "4" [] d = 5 -> "5" [] d = 6 -> "6" [] d = 7 -> "7"
      [] d = 8 -> "8" [] d = 9 -> "9"

\* str::parse::<u32>: Err(Empty) on "", Err(InvalidDigit) on a non-digit,
\* Err(PosOverflow) as soon as the accumulated value leaves u32.
RECURSIVE parse_u32_from(_, _, _)
parse_u32_from(s, i, acc) ==
    IF i > Len(s) THEN [ok |-> TRUE, val |-> acc, kind |-> "Ok"]
    ELSE IF ~is_ascii_digit(s[i])
         THEN [ok |-> FALSE, val |-> <<>>, kind |-> "InvalidDigit"]
    ELSE IF ~fits_u32(WMulAdd(acc, 10, to_digit(s[i])))
         THEN [ok |-> FALSE, val |-> <<>>, kind |-> "PosOverflow"]
    ELSE parse_u32_from(s, i + 1, WMulAdd(acc, 10, to_digit(s[i])))

parse_u32(s) ==
    IF Len(s) = 0 THEN [ok |-> FALSE, val |-> <<>>, kind |-> "Empty"]
    ELSE parse_u32_from(s, 1, <<>>)

\* u32::checked_mul: None when the product does not fit in 32 bits
checked_mul(a, b) == IF fits_u32(WMul(a, b)) THEN Some(WMul(a, b)) ELSE None

\* u32::to_string
RECURSIVE to_string(_)
to_string(n) ==
    LET dm == WDivMod(n, 10) IN
    IF dm.q = <<>> THEN <<from_digit(dm.r)>>
    ELSE Append(to_string(dm.q), from_digit(dm.r))

----------------------------------------------------------------------------
(* parse_duration                                                          *)

ONE_MINUTE == 1
ONE_HOUR == 60
ONE_DAY == ONE_HOUR * 24
ONE_WEEK == ONE_DAY * 7
\* a month of 31 days
ONE_MONTH_31 == ONE_DAY * 31

ONE_MONTH == ONE_DAY * 30
ONE_YEAR == ONE_DAY * 365
ONE_HUNDRED_YEARS == ONE_YEAR * 100

DOk(t) == [kind |-> "Ok", value |-> t, text |-> <<>>]
\* anyhow!("Unknown unit `{}'; expected one of ...", unit)
InvalidFormat(unit) == [kind |-> "InvalidFormat", value |-> <<>>, text |-> unit]
\* anyhow!("Duration `{}' is too long; maximum duration is 100y", s)
too_long(s) == [kind |-> "TooLong", value |-> <<>>, text |-> s]
\* .expect("amount is entirely ascii digits") on an Err: the thread panics
Panic == [kind |-> "Panic", value |-> <<>>, text |-> <<>>]

\* s.find(|c| !c.is_ascii_digit()): position of the first non-digit, 1-based
find_non_digit(s) ==
    IF \E i \in 1..Len(s) : ~is_ascii_digit(s[i])
    THEN Some(CHOOSE i \in 1..Len(s) :
                /\ ~is_ascii_digit(s[i])
                /\ \A j \in 1..(i - 1) : is_ascii_digit(s[j]))
    ELSE None

DefaultUnit == <<"m">>

\* (amount, unit): split at the first non-digit, else (s, "m")
split_amount_unit(s) ==
    LET idx == find_non_digit(s) IN
    IF IsSome(idx)
    THEN <<SubSeq(s, 1, Unwrap(idx) - 1), SubSeq(s, Unwrap(idx), Len(s))>>
    ELSE <<s, DefaultUnit>>

\* the match on unit; None for the `_' arm
scale_of(unit) ==
    CASE unit = <<"m">> -> Some(ONE_MINUTE)
      [] unit = <<"h">> -> Some(ONE_HOUR)
      [] unit = <<"d">> -> Some(ONE_DAY)
      [] unit = <<"w">> -> Some(ONE_WEEK)
      [] unit = <<"m", "o">> -> Some(ONE_MONTH)
      [] unit = <<"y">> -> Some(ONE_YEAR)
      [] OTHER -> None

\* the overflow check without the 100 year check
scale_amount_NoLimit(s, amount, scale) ==
    LET t == checked_mul(amount, scale) IN
    IF ~IsSome(t) THEN too_long(s) ELSE DOk(Unwrap(t))

\* amount.checked_mul(scale).ok_or_else(too_long).and_then(range check)
scale_amount(s, amount, scale) ==
    LET t == checked_mul(amount, scale) IN
    IF ~IsSome(t) THEN too_long(s)
    ELSE IF WLess(W(ONE_HUNDRED_YEARS), Unwrap(t)) THEN too_long(s)
    ELSE DOk(Unwrap(t))

parse_duration(s) ==
    LET parts == split_amount_unit(s)
        amount == parse_u32(parts[1])
        scale == scale_of(parts[2])
    IN  IF ~amount.ok THEN Panic
        ELSE IF ~IsSome(scale) THEN InvalidFormat(parts[2])
        ELSE scale_amount(s, amount.val, Unwrap(scale))

----------------------------------------------------------------------------
(* Paths.  A path is the sequence of its '/'-separated segments and a      *)
(* segment is the sequence of its '.'-separated parts: "src/main.rs" is    *)
(* <<<<"src">>, <<"main", "rs">>>>, ".." is <<<<"", "", "">>>> and "/" is  *)
(* <<<<"">>, <<"">>>>.                                                     *)

EmptySeg == <<"">>
CurDirSeg == <<"", "">>
ParentDirSeg == <<"", "", "">>

\* Utf8Path::components: empty segments and non-leading "." are dropped
RECURSIVE components_from(_, _)
components_from(path, i) ==
    IF i > Len(path) THEN <<>>
    ELSE LET seg == path[i]
             rest == components_from(path, i + 1)
         IN  IF seg = EmptySeg
             THEN (IF i = 1 /\ Len(path) > 1
                   THEN <<[kind |-> "RootDir", name |-> seg]>> \o rest
                   ELSE rest)
             ELSE IF seg = CurDirSeg
             THEN (IF i = 1
                   THEN <<[kind |-> "CurDir", name |-> seg]>> \o rest
                   ELSE rest)
             ELSE IF seg = ParentDirSeg
             THEN <<[kind |-> "ParentDir", name |-> seg]>> \o rest
             ELSE <<[kind |-> "Normal", name |-> seg]>> \o rest

components(path) == components_from(path, 1)

\* Utf8Path::file_name: the last component when it is a normal one
file_name(path) ==
    LET cs == components(path) IN
    IF Len(cs) > 0 /\ cs[Len(cs)].kind = "Normal"
    THEN Some(cs[Len(cs)].name)
    ELSE None

----------------------------------------------------------------------------
(* mod language (language.rs)                                              *)

Autodetect == "autodetect"

KnownLanguages ==
    {"rust", "python", "javascript", "markdown", "json", "yaml", "bash",
     "c", "cpp", "go"}

\* the extension -> language table; None when the extension is not in it
language_of_extension(ext) ==
    CASE ext = "rs" -> Some("rust")
      [] ext = "py" -> Some("python")
      [] ext = "js" -> Some("javascript")
      [] ext = "md" -> Some("markdown")
      [] ext = "json" -> Some("json")
      [] ext \in {"yaml", "yml"} -> Some("yaml")
      [] ext = "sh" -> Some("bash")
      [] ext \in {"c", "h"} -> Some("c")
      [] ext \in {"cpp", "hpp"} -> Some("cpp")
      [] ext = "go" -> Some("go")
      [] OTHER -> None

\* guess_language: the language of the file name's extension, if any
guess_language(path) ==
    LET name == file_name(path) IN
    IF IsSome(name) /\ Len(Unwrap(name)) > 1
    THEN language_of_extension(Unwrap(name)[Len(Unwrap(name))])
    ELSE None

\* parse_language: [ok, val]; the token itself when it is known
parse_language(token) ==
    IF token = Autodetect \/ token \in KnownLanguages
    THEN [ok |-> TRUE, val |-> token]
    ELSE [ok |-> FALSE, val |-> token]

----------------------------------------------------------------------------
(* Response (serde, untagged): the body of the reply.  A body is not JSON, *)
(* JSON that is no object, or an object; of an object only the keys `url'  *)
(* and `error_msg' matter (unknown keys are ignored), each given by the    *)
(* sequence of values the object holds for it (none, one, or repeated).    *)

JString(v) == [t |-> "string", v |-> v]
JNumber(v) == [t |-> "number", v |-> v]

\* a String field of a struct variant: exactly one occurrence, a string
string_field(occurrences) ==
    IF Len(occurrences) = 1 /\ occurrences[1].t = "string"
    THEN Some(occurrences[1].v)
    ELSE None

PasteVariant(url) == [variant |-> "Paste", text |-> url]
ErrorVariant(msg) == [variant |-> "Error", text |-> msg]

\* the variants tried in the other order: Error, then Paste
deserialize_response_ErrorFirst(body) ==
    IF body.json # "object" THEN None
    ELSE IF IsSome(string_field(body.error_msg))
         THEN Some(ErrorVariant(Unwrap(string_field(body.error_msg))))
    ELSE IF IsSome(string_field(body.url))
         THEN Some(PasteVariant(Unwrap(string_field(body.url))))
    ELSE None

\* the variants are tried in declaration order: Paste, then Error
deserialize_response(body) ==
    IF body.json # "object" THEN None
    ELSE IF IsSome(string_field(body.url))
         THEN Some(PasteVariant(Unwrap(string_field(body.url))))
    ELSE IF IsSome(string_field(body.error_msg))
         THEN Some(ErrorVariant(Unwrap(string_field(body.error_msg))))
    ELSE None

\* Response::into_result
into_result(r) ==
    IF r.variant = "Paste" THEN [ok |-> TRUE, text |-> r.text]
    ELSE [ok |-> FALSE, text |-> r.text]

----------------------------------------------------------------------------
(* The pieces of main.                                                     *)

EnvNotPresent == [kind |-> "NotPresent", val |-> ""]
EnvNotUnicode == [kind |-> "NotUnicode", val |-> ""]
EnvSet(v) == [kind |-> "Set", val |-> v]

\* env::var(API_KEY_ENV_VAR)
env_var(e) ==
    IF e.kind = "Set" THEN [ok |-> TRUE, val |-> e.val, lookups |-> 1]
    ELSE [ok |-> FALSE, val |-> "", lookups |-> 1]

\* the environment read first, the option only as its fallback
resolve_api_key_EnvFirst(o, e) ==
    IF env_var(e).ok THEN env_var(e)
    ELSE IF IsSome(o.api_key)
         THEN [ok |-> TRUE, val |-> Unwrap(o.api_key), lookups |-> 1]
    ELSE env_var(e)

\* options.api_key.map_or_else(|| env::var(API_KEY_ENV_VAR), Ok)
resolve_api_key(o, e) ==
    IF IsSome(o.api_key)
    THEN [ok |-> TRUE, val |-> Unwrap(o.api_key), lookups |-> 0]
    ELSE env_var(e)

\* the guess from the path taken before the explicit language
resolve_language_GuessFirst(language, path) ==
    IF IsSome(path) /\ IsSome(guess_language(Unwrap(path)))
    THEN Unwrap(guess_language(Unwrap(path)))
    ELSE IF IsSome(language) THEN Unwrap(language)
    ELSE Autodetect

\* options.language.or_else(|| path.and_then(guess_language)).unwrap_or("autodetect")
resolve_language(language, path) ==
    IF IsSome(language) THEN Unwrap(language)
    ELSE IF IsSome(path) /\ IsSome(guess_language(Unwrap(path)))
         THEN Unwrap(guess_language(Unwrap(path)))
    ELSE Autodetect

\* the file name taken before the explicit title
resolve_title_PathFirst(title, path) ==
    IF IsSome(path) /\ IsSome(file_name(Unwrap(path)))
    THEN file_name(Unwrap(path))
    ELSE title

\* options.title.or_else(|| path.and_then(Utf8Path::file_name))
resolve_title(title, path) ==
    IF IsSome(title) THEN title
    ELSE IF IsSome(path) THEN file_name(Unwrap(path))
    ELSE None

\* the query pairs, in the order they are appended
build_query(key, duration, language, title, max_views) ==
    <<<<"api_key", key>>, <<"duration", to_string(duration)>>,
      <<"language", language>>>>
    \o (IF IsSome(title) THEN <<<<"title", Unwrap(title)>>>> ELSE <<>>)
    \o (IF IsSome(max_views)
        THEN <<<<"max_views", to_string(Unwrap(max_views))>>>>
        ELSE <<>>)

----------------------------------------------------------------------------
(* Inputs.                                                                 *)

\* all sequences over A of length at most n
SeqsUpTo(A, n) == UNION {[1..k -> A] : k \in 0..n}

DigitChars == {"0", "1", "9"}
SuffixChars == {"m", "o", "h", "d", "w", "y", "x", "M", " ", "2"}

\* digit runs at the edges of u32 and of the 100 year limit
BoundaryRuns ==
    {<<"5", "2", "5", "6", "0", "0", "0", "0">>,
     <<"5", "2", "5", "6", "0", "0", "0", "1">>,
     <<"8", "7", "6", "0", "0", "0">>,
     <<"8", "7", "6", "0", "0", "1">>,
     <<"3", "6", "5", "0", "0">>,
     <<"3", "6", "5", "0", "1">>,
     <<"5", "2", "1", "4">>,
     <<"5", "2", "1", "5">>,
     <<"1", "2", "1", "6">>,
     <<"1", "2", "1", "7">>,
     <<"8", "1", "7", "2">>,
     <<"9", "9", "4", "2", "1">>,
     <<"4", "2", "9", "4", "9", "6", "7", "2", "9", "5">>,
     <<"4", "2", "9", "4", "9", "6", "7", "2", "9", "6">>,
     <<"0", "0", "0", "0", "0", "0", "0", "0", "0", "9", "0">>}

DigitRuns == SeqsUpTo(DigitChars, MaxDigits) \cup BoundaryRuns

Suffixes ==
    {u \in SeqsUpTo(SuffixChars, MaxSuffix) :
        Len(u) > 0 => ~is_ascii_digit(u[1])}
    \cup {<<"m", "o", "m">>}

\* the strings parse_duration is applied to on its own
ParseInputs == {run \o u : run \in DigitRuns, u \in Suffixes}

\* the --duration values of whole runs; <<"1", "d">> is the default
RunDurations ==
    {<<"1", "d">>, <<"0">>, <<"9", "0">>, <<"2", "m", "o">>,
     <<"1", "0", "0", "y">>, <<"1", "0", "1", "y">>, <<"8", "1", "7", "2", "y">>,
     <<"5", "x">>, <<>>, <<"y">>,
     <<"4", "2", "9", "4", "9", "6", "7", "2", "9", "6">>}

Paths ==
    {<<<<"notes", "txt">>>>,
     <<<<"src">>, <<"main", "rs">>>>,
     <<<<"README">>>>,
     <<<<"dir">>, CurDirSeg>>,
     <<ParentDirSeg>>,
     <<EmptySeg, EmptySeg>>}

Options ==
    [api_key : {None, Some("KEY_OPT")},
     duration : RunDurations,
     language : {None, Some("python"), Some(Autodetect), Some("bogus")},
     title : {None, Some(<<"T">>)},
     max_views : {None, Some(W(0)), Some(U32_MAX)},
     path : {None} \cup {Some(p) : p \in Paths}]

Envs == {EnvNotPresent, EnvNotUnicode, EnvSet("KEY_ENV")}

Contents == {"hello"}

JsonFields ==
    {<<>>, <<JString("a")>>, <<JNumber("1")>>, <<JString("a"), JString("b")>>}

Bodies ==
    [json : {"object"}, url : JsonFields, error_msg : JsonFields]
    \cup [json : {"invalid", "scalar"}, url : {<<>>}, error_msg : {<<>>}]

Statuses == {200, 500}

Responses == [status : Statuses, body : Bodies]

----------------------------------------------------------------------------
(* State.                                                                  *)

NoResult == [kind |-> "None", value |-> <<>>, text |-> <<>>]

Start ==
    /\ pc = "parse"
    /\ dres = NoResult
    /\ lres = None
    /\ api_key = None
    /\ buffer = None
    /\ request = None
    /\ response = None
    /\ outcome = None
    /\ stdout = <<>>
    /\ err = "none"
    /\ steps = <<>>
    /\ reads = 0
    /\ sends = 0
    /\ env_lookups = 0

Init ==
    /\ opts \in Options
    /\ env \in Envs
    /\ Start

\* the run ends with an error: `?' in main, or clap's exit on a bad value
Fail(kind) ==
    /\ pc' = "failed"
    /\ err' = kind

----------------------------------------------------------------------------
(* The steps of main.                                                      *)

\* Options::parse(): clap runs the value parsers of --duration and --lang
\* on the values given; which of two bad values is met first depends on
\* their order on the command line.
ParseOptions ==
    /\ pc = "parse"
    /\ steps' = Append(steps, "validate")
    /\ LET d == parse_duration(opts.duration)
           l == IF IsSome(opts.language)
                THEN parse_language(Unwrap(opts.language))
                ELSE [ok |-> TRUE, val |-> ""]
       IN  \/ /\ d.kind = "Panic"
              /\ pc' = "panicked"
              /\ dres' = d
              /\ UNCHANGED <<lres, err>>
           \/ /\ d.kind \in {"InvalidFormat", "TooLong"}
              /\ Fail(d.kind)
              /\ dres' = d
              /\ UNCHANGED lres
           \/ /\ ~l.ok
              /\ Fail("UnknownLanguage")
              /\ UNCHANGED <<dres, lres>>
           \/ /\ d.kind = "Ok"
              /\ l.ok
              /\ pc' = "key"
              /\ dres' = d
              /\ lres' = (IF IsSome(opts.language) THEN Some(l.val) ELSE None)
              /\ UNCHANGED err
    /\ UNCHANGED <<opts, env, api_key, buffer, request, response, outcome,
                   stdout, reads, sends, env_lookups>>

ResolveApiKey ==
    /\ pc = "key"
    /\ steps' = Append(steps, "key")
    /\ LET k == resolve_api_key(opts, env) IN
       /\ env_lookups' = env_lookups + k.lookups
       /\ IF k.ok
          THEN /\ api_key' = Some(k.val)
               /\ pc' = "read"
               /\ UNCHANGED err
          ELSE /\ Fail("MissingCredential")
               /\ UNCHANGED api_key
    /\ UNCHANGED <<opts, env, dres, lres, buffer, request, response, outcome,
                   stdout, reads, sends>>

\* a path without a file name ("..", "/") names a directory: it opens but
\* cannot be read
ReadResults(path) ==
    IF IsSome(path) /\ ~IsSome(file_name(Unwrap(path)))
    THEN {[ok |-> FALSE, text |-> ""]}
    ELSE {[ok |-> FALSE, text |-> ""]} \cup {[ok |-> TRUE, text |-> c] : c \in Contents}

\* File::open(path)?.read_to_string(&mut buffer)?, or stdin().read_to_string
ReadContent ==
    /\ pc = "read"
    /\ steps' = Append(steps, "read")
    /\ reads' = reads + 1
    /\ \E r \in ReadResults(opts.path) :
          IF r.ok
          THEN /\ buffer' = Some(r.text)
               /\ pc' = "build"
               /\ UNCHANGED err
          ELSE /\ Fail("IOFailure")
               /\ UNCHANGED buffer
    /\ UNCHANGED <<opts, env, dres, lres, api_key, request, response, outcome,
                   stdout, sends, env_lookups>>

\* language, title and the URL with its query pairs
BuildRequest ==
    /\ pc = "build"
    /\ steps' = Append(steps, "build")
    /\ request' = Some(build_query(Unwrap(api_key), dres.value,
                                   resolve_language(lres, opts.path),
                                   resolve_title(opts.title, opts.path),
                                   opts.max_views))
    /\ pc' = "send"
    /\ UNCHANGED <<opts, env, dres, lres, api_key, buffer, response, outcome,
                   stdout, err, reads, sends, env_lookups>>

\* a send that is tried again after a transport failure
Send_Retry ==
    /\ pc = "send"
    /\ steps' = Append(steps, "send")
    /\ sends' = sends + 1
    /\ \/ /\ UNCHANGED <<pc, err, response>>
       \/ /\ \E r \in Responses : response' = Some(r)
          /\ pc' = "interpret"
          /\ UNCHANGED err
    /\ UNCHANGED <<opts, env, dres, lres, api_key, buffer, request, outcome,
                   stdout, reads, env_lookups>>

\* client.post(url).body(buffer).send()
Send ==
    /\ pc = "send"
    /\ steps' = Append(steps, "send")
    /\ sends' = sends + 1
    /\ \/ /\ Fail("TransportFailure")
          /\ UNCHANGED response
       \/ /\ \E r \in Responses : response' = Some(r)
          /\ pc' = "interpret"
          /\ UNCHANGED err
    /\ UNCHANGED <<opts, env, dres, lres, api_key, buffer, request, outcome,
                   stdout, reads, env_lookups>>

\* .json::<Response>()?.into_result()?
Interpret ==
    /\ pc = "interpret"
    /\ steps' = Append(steps, "interpret")
    /\ LET v == deserialize_response(Unwrap(response).body) IN
       IF ~IsSome(v)
       THEN /\ Fail("MalformedResponse")
            /\ outcome' = Some([kind |-> "MalformedResponse", text |-> ""])
       ELSE LET r == into_result(Unwrap(v)) IN
            IF r.ok
            THEN /\ outcome' = Some([kind |-> "Success", text |-> r.text])
                 /\ pc' = "print"
                 /\ UNCHANGED err
            ELSE /\ Fail("RemoteFailure")
                 /\ outcome' = Some([kind |-> "Failure", text |-> r.text])
    /\ UNCHANGED <<opts, env, dres, lres, api_key, buffer, request, response,
                   stdout, reads, sends, env_lookups>>

\* println!("{}", paste_url)
PrintUrl ==
    /\ pc = "print"
    /\ steps' = Append(steps, "print")
    /\ stdout' = Append(stdout, Unwrap(outcome).text)
    /\ pc' = "done"
    /\ UNCHANGED <<opts, env, dres, lres, api_key, buffer, request, response,
                   outcome, err, reads, sends, env_lookups>>

Next ==
    \/ ParseOptions
    \/ ResolveApiKey
    \/ ReadContent
    \/ BuildRequest
    \/ Send
    \/ Interpret
    \/ PrintUrl

Spec == Init /\ [][Next]_vars

----------------------------------------------------------------------------
(* parse_duration on its own, over ParseInputs.                            *)

InitParse ==
    /\ opts \in [api_key : {None}, duration : ParseInputs, language : {None},
                 title : {None}, max_views : {None}, path : {None}]
    /\ env = EnvNotPresent
    /\ Start

ParseDuration ==
    /\ pc = "parse"
    /\ dres' = parse_duration(opts.duration)
    /\ pc' = "parsed"
    /\ UNCHANGED <<opts, env, lres, api_key, buffer, request, response,
                   outcome, stdout, err, steps, reads, sends, env_lookups>>

NextParse == ParseDuration

SpecParse == InitParse /\ [][NextParse]_vars

----------------------------------------------------------------------------
(* What the claims speak of, stated without the operators of the program.  *)

\* the number a digit run denotes, however long the run
RECURSIVE DecimalValue(_)
DecimalValue(run) ==
    IF Len(run) = 0 THEN <<>>
    ELSE WMulAdd(DecimalValue(SubSeq(run, 1, Len(run) - 1)), 10,
                 to_digit(run[Len(run)]))

\* the length of the leading digit run of s
RECURSIVE DigitRunLen(_)
DigitRunLen(s) ==
    IF Len(s) = 0 \/ s[1] \notin AsciiDigits THEN 0
    ELSE 1 + DigitRunLen(Tail(s))

DigitRunOf(s) == SubSeq(s, 1, DigitRunLen(s))
RemainderOf(s) == SubSeq(s, DigitRunLen(s) + 1, Len(s))

Units == {<<"m">>, <<"h">>, <<"d">>, <<"w">>, <<"m", "o">>, <<"y">>}

\* minutes per unit, a missing unit counting as minutes
MinutesPer(u) ==
    CASE u = <<>> -> 1
      [] u = <<"m">> -> 1
      [] u = <<"h">> -> 60
      [] u = <<"d">> -> 1440
      [] u = <<"w">> -> 10080
      [] u = <<"m", "o">> -> 43200
      [] u = <<"y">> -> 525600

\* 100 years in minutes
Limit == W(52560000)

\* a non-empty digit run followed by nothing or by one unit
WellFormed(s) ==
    /\ DigitRunLen(s) > 0
    /\ RemainderOf(s) \in Units \cup {<<>>}

Product(s) == WMul(DecimalValue(DigitRunOf(s)), MinutesPer(RemainderOf(s)))

Input == opts.duration

Parsed == pc = "parsed"

----------------------------------------------------------------------------
(* Claims about parse_duration, under SpecParse.                           *)

\* C1: parse_duration ends, for every string, in a minute count, an
\* InvalidFormat error or a TooLong error, never in a panic.
C1_Total == Parsed => dres.kind \in {"Ok", "InvalidFormat", "TooLong"}

\* C2: a non-empty digit run followed by nothing or one unit, with
\* amount x scale <= 52,560,000, parses to exactly amount x scale.
C2_ExactProduct ==
    (Parsed /\ WellFormed(Input) /\ WLeq(Product(Input), Limit))
        => (dres.kind = "Ok" /\ dres.value = Product(Input))

\* C2 witness: "1216mo", the largest month count within the limit, parsed
C2_Witness ==
    /\ Parsed
    /\ Input = <<"1", "2", "1", "6", "m", "o">>
    /\ dres.kind = "Ok"
    /\ dres.value = W(52531200)

\* C3: a non-empty digit run followed by nothing or one unit, with
\* amount x scale > 52,560,000, fails with TooLong naming the input.
C3_TooLong ==
    (Parsed /\ WellFormed(Input) /\ WLess(Limit, Product(Input)))
        => (dres.kind = "TooLong" /\ dres.text = Input)

\* C4: after a non-empty digit run the whole remainder is the unit: "mo" is
\* the month, and a remainder that is no unit fails with InvalidFormat
\* naming that remainder, whatever the amount.
C4_WholeUnit ==
    (Parsed /\ DigitRunLen(Input) > 0)
        => /\ (RemainderOf(Input) = <<"m", "o">> /\ WLeq(Product(Input), Limit))
                => (dres.kind = "Ok" /\ dres.value = Product(Input))
           /\ (RemainderOf(Input) \notin Units \cup {<<>>})
                => (dres.kind = "InvalidFormat" /\ dres.text = RemainderOf(Input))

\* the amount of the input fits in a u32
AmountFits(s) == fits_u32(DecimalValue(DigitRunOf(s)))

\* C3, for amounts that fit in 32 bits: there the claim holds, also when
\* the product itself does not fit.
C3_WithinU32 == AmountFits(Input) => C3_TooLong

\* C4, for amounts that fit in 32 bits: there the claim holds.
C4_WithinU32 == AmountFits(Input) => C4_WholeUnit

----------------------------------------------------------------------------
(* Claims about whole runs, under Spec.                                    *)

\* the values of the query pairs named name, in order
RECURSIVE ParamValues(_, _)
ParamValues(q, name) ==
    IF Len(q) = 0 THEN <<>>
    ELSE (IF q[1][1] = name THEN <<q[1][2]>> ELSE <<>>)
         \o ParamValues(Tail(q), name)

Query == Unwrap(request)
Built == IsSome(request)

\* the decimal form of a natural number: digits, no leading zero but "0"
IsDecimal(s) ==
    /\ Len(s) > 0
    /\ \A i \in 1..Len(s) : s[i] \in AsciiDigits
    /\ Len(s) > 1 => s[1] # "0"

\* C5 as claimed: every parsed duration, and the `duration' parameter of
\* every built request, is an integer from 1 to 52,560,000.
C5_Original ==
    /\ dres.kind = "Ok" => (WLeq(W(1), dres.value) /\ WLeq(dres.value, Limit))
    /\ Built =>
          /\ Len(ParamValues(Query, "duration")) = 1
          /\ IsDecimal(ParamValues(Query, "duration")[1])
          /\ WLeq(W(1), DecimalValue(ParamValues(Query, "duration")[1]))
          /\ WLeq(DecimalValue(ParamValues(Query, "duration")[1]), Limit)

\* C5 as amended: every parsed duration, and the `duration' parameter of
\* every built request, is an integer from 0 to 52,560,000; the parameter
\* is the decimal form of the parsed duration.
C5_Amended ==
    /\ dres.kind = "Ok" => WLeq(dres.value, Limit)
    /\ Built =>
          /\ Len(ParamValues(Query, "duration")) = 1
          /\ IsDecimal(ParamValues(Query, "duration")[1])
          /\ DecimalValue(ParamValues(Query, "duration")[1]) = dres.value
          /\ WLeq(DecimalValue(ParamValues(Query, "duration")[1]), Limit)

\* C5 witness: a request built with a duration of 0 minutes, from "0"
C5_Witness ==
    /\ Built
    /\ opts.duration = <<"0">>
    /\ dres.value = W(0)
    /\ ParamValues(Query, "duration") = <<<<"0">>>>

Body == Unwrap(response).body

\* the shapes of the reply: a JSON object with one string field `url',
\* or with one string field `error_msg'
SuccessShape(b) ==
    b.json = "object" /\ Len(b.url) = 1 /\ b.url[1].t = "string"
FailureShape(b) ==
    b.json = "object" /\ Len(b.error_msg) = 1 /\ b.error_msg[1].t = "string"

Terminal == pc \in {"done", "failed", "panicked"}

\* C6: the outcome follows from the body alone: the success shape, tried
\* first, gives success with its URL; else the failure shape gives failure
\* with its message; else MalformedResponse.  The URL is printed exactly
\* when the outcome is success.
C6_BodyShape ==
    /\ IsSome(outcome) =>
          Unwrap(outcome) =
             IF SuccessShape(Body)
             THEN [kind |-> "Success", text |-> Body.url[1].v]
             ELSE IF FailureShape(Body)
             THEN [kind |-> "Failure", text |-> Body.error_msg[1].v]
             ELSE [kind |-> "MalformedResponse", text |-> ""]
    /\ Terminal =>
          stdout = IF IsSome(outcome) /\ Unwrap(outcome).kind = "Success"
                   THEN <<Unwrap(outcome).text>>
                   ELSE <<>>
    /\ (IsSome(response) /\ Terminal) => IsSome(outcome)

\* C6 witness: status 500, a body with both fields: success, URL printed
C6_Witness ==
    /\ pc = "done"
    /\ Unwrap(response).status = 500
    /\ Body.url = <<JString("a")>>
    /\ Body.error_msg = <<JString("a")>>
    /\ stdout = <<"a">>

\* C7: `title' is the explicit title, else the file name of the path, else
\* absent; `max_views' is present, in decimal, exactly when supplied.
C7_TitleMaxViews ==
    Built =>
       /\ ParamValues(Query, "title") =
             IF IsSome(opts.title) THEN <<Unwrap(opts.title)>>
             ELSE IF IsSome(opts.path) /\ IsSome(file_name(Unwrap(opts.path)))
             THEN <<Unwrap(file_name(Unwrap(opts.path)))>>
             ELSE <<>>
       /\ Len(ParamValues(Query, "max_views")) =
             (IF IsSome(opts.max_views) THEN 1 ELSE 0)
       /\ IsSome(opts.max_views) =>
             /\ IsDecimal(ParamValues(Query, "max_views")[1])
             /\ DecimalValue(ParamValues(Query, "max_views")[1])
                   = Unwrap(opts.max_views)

\* C7 witness: explicit title and a path, max-views unset
C7_Witness ==
    /\ Built
    /\ opts.title = Some(<<"T">>)
    /\ opts.path = Some(<<<<"notes", "txt">>>>)
    /\ opts.max_views = None
    /\ ParamValues(Query, "title") = <<<<"T">>>>
    /\ ParamValues(Query, "max_views") = <<>>

\* C8: `language' is the explicit language, else the language guessed from
\* the path, else "autodetect"; it is always present, and is "autodetect"
\* or a known language.
C8_Language ==
    Built =>
       /\ ParamValues(Query, "language") =
             IF IsSome(opts.language) THEN <<Unwrap(opts.language)>>
             ELSE IF IsSome(opts.path) /\ IsSome(guess_language(Unwrap(opts.path)))
             THEN <<Unwrap(guess_language(Unwrap(opts.path)))>>
             ELSE <<Autodetect>>
       /\ \A i \in 1..Len(ParamValues(Query, "language")) :
             ParamValues(Query, "language")[i] \in KnownLanguages \cup {Autodetect}
       /\ (opts.path = None /\ opts.language = None)
             => ParamValues(Query, "language") = <<Autodetect>>

\* C8 witness: explicit "python" wins over the guess for main.rs
C8_Witness ==
    /\ Built
    /\ opts.language = Some("python")
    /\ opts.path = Some(<<<<"src">>, <<"main", "rs">>>>)
    /\ ParamValues(Query, "language") = <<"python">>

KeyAvailable == IsSome(opts.api_key) \/ env.kind = "Set"

\* C9: `api_key' is the option when supplied, the environment not being
\* read then, else the environment variable; with neither the run fails
\* with MissingCredential before any read and any request.
C9_ApiKey ==
    /\ Built =>
          ParamValues(Query, "api_key") =
             IF IsSome(opts.api_key) THEN <<Unwrap(opts.api_key)>>
             ELSE <<env.val>>
    /\ IsSome(opts.api_key) => env_lookups = 0
    /\ "key" \in {steps[i] : i \in 1..Len(steps)} =>
          IF KeyAvailable
          THEN err # "MissingCredential" /\ IsSome(api_key)
          ELSE /\ pc = "failed"
               /\ err = "MissingCredential"
               /\ reads = 0
               /\ sends = 0
               /\ buffer = None
               /\ request = None

\* C9 witness: option and environment both set, request built
C9_Witness ==
    /\ Built
    /\ opts.api_key = Some("KEY_OPT")
    /\ env = EnvSet("KEY_ENV")
    /\ ParamValues(Query, "api_key") = <<"KEY_OPT">>

Order == <<"validate", "key", "read", "build", "send", "interpret", "print">>

\* the step at which each error arises
StepOf(e) ==
    CASE e \in {"InvalidFormat", "TooLong", "UnknownLanguage"} -> "validate"
      [] e = "MissingCredential" -> "key"
      [] e = "IOFailure" -> "read"
      [] e = "TransportFailure" -> "send"
      [] e \in {"MalformedResponse", "RemoteFailure"} -> "interpret"

\* C10: the steps run in the fixed order and a failure is the last step:
\* at most one read and one request, no request unless validation, key and
\* read succeeded, and no URL printed after a failure.
C10_FailStop ==
    /\ steps = SubSeq(Order, 1, Len(steps))
    /\ reads <= 1 /\ sends <= 1
    /\ reads = (IF "read" \in {steps[i] : i \in 1..Len(steps)} THEN 1 ELSE 0)
    /\ sends = (IF "send" \in {steps[i] : i \in 1..Len(steps)} THEN 1 ELSE 0)
    /\ err # "none" <=> pc = "failed"
    /\ pc = "failed" => steps[Len(steps)] = StepOf(err)
    /\ pc = "panicked" => steps = <<"validate">>
    /\ pc \in {"failed", "panicked"} => stdout = <<>>
    /\ sends = 1 =>
          /\ parse_duration(opts.duration).kind = "Ok"
          /\ IsSome(opts.language) => parse_language(Unwrap(opts.language)).ok
          /\ KeyAvailable
          /\ IsSome(buffer)
          /\ Built
    /\ pc = "done" => (steps = Order /\ Len(stdout) = 1)

\* C10 witness: the reply is a remote failure; one request, nothing printed
C10_Witness ==
    /\ pc = "failed"
    /\ err = "RemoteFailure"
    /\ sends = 1
    /\ stdout = <<>>

====
